---- MODULE Spec2Model ----
(***************************************************************************)
(* A model of blocks/log.py: the TrainingLog facade, its in-memory         *)
(* handler (DefaultOrderedDict of dicts) and its MongoDB handler           *)
(* (MongoDBEntries / MongoEntry / MongoDBDict over the `experiments` and   *)
(* `entries` collections of one database).                                 *)
(*                                                                         *)
(* Python values are tagged records [kind, val]; a dict is a function      *)
(* whose domain is its key set; a MongoDB collection is the sequence of    *)
(* its documents in insertion (natural) order.  Field names range over     *)
(* metric names, which are distinct from the keys `_id`, `experiment` and  *)
(* `iteration` that the entry documents use for scoping.                   *)
(***************************************************************************)
EXTENDS Integers, Sequences, FiniteSets, TLC

\* ------------------------------------------------------------------ bounds
\* number of TrainingLog objects alive at once
MaxLogs == 2
\* timestamps the caller uses are 0..MaxTime
MaxTime == 1
\* the caller increments status['iterations_done'] up to MaxIter
MaxIter == 1
\* number of entry field writes and deletes in one behaviour
MaxWrites == 2

\* number of MongoEntry objects the caller holds at once
MaxObjs == 2
\* number of times the contents of one MongoEntry object are read
MaxQueries == 2
\* number of `status['iterations_done'] += 1` statements run by the instances
\* of one experiment
MaxIncs == 2

\* ----------------------------------------------------------------- values
IntV(n) == [kind |-> "int", val |-> n]
ListV(n) == [kind |-> "list", val |-> n]
TupleV(n) == [kind |-> "tuple", val |-> n]
NdArrayV(n) == [kind |-> "ndarray", val |-> n]
StrV(n) == [kind |-> "str", val |-> n]
FloatV(n) == [kind |-> "float", val |-> n]
NoneV == [kind |-> "None", val |-> 0]
DateV(n) == [kind |-> "datetime", val |-> n]
OidV(bytes) == [kind |-> "ObjectId", val |-> bytes]
AutoIdV(n) == [kind |-> "autoid", val |-> n]

\* dict helpers
EmptyDict == <<>>
Put(m, k, v) == [x \in (DOMAIN m) \cup {k} |-> IF x = k THEN v ELSE m[x]]
Del(m, k) == [x \in (DOMAIN m) \ {k} |-> m[x]]
Project(m, hidden) == [x \in (DOMAIN m) \ hidden |-> m[x]]

\* ------------------------------------------------------------ hexadecimal
Digits == <<"0", "1", "2", "3", "4", "5", "6", "7", "8", "9">>
LowerHex == <<"a", "b", "c", "d", "e", "f">>
UpperHex == <<"A", "B", "C", "D", "E", "F">>
Range(s) == {s[i] : i \in DOMAIN s}
IsHexDigit(c) == c \in Range(Digits) \cup Range(LowerHex) \cup Range(UpperHex)
HexVal(c) ==
    IF c \in Range(Digits) THEN (CHOOSE i \in DOMAIN Digits : Digits[i] = c) - 1
    ELSE IF c \in Range(LowerHex)
         THEN 9 + (CHOOSE i \in DOMAIN LowerHex : LowerHex[i] = c)
         ELSE 9 + (CHOOSE i \in DOMAIN UpperHex : UpperHex[i] = c)
HexChar(n) == IF n < 10 THEN Digits[n + 1] ELSE LowerHex[n - 9]

\* binascii.unhexlify: an odd length or a non-hex character is an error
UnhexlifyOk(s) == Len(s) % 2 = 0 /\ \A i \in DOMAIN s : IsHexDigit(s[i])
Unhexlify(s) ==
    [i \in 1..(Len(s) \div 2) |-> 16 * HexVal(s[2 * i - 1]) + HexVal(s[2 * i])]
\* binascii.hexlify(...).decode(): two lower-case digits per byte
Hexlify(b) ==
    [i \in 1..(2 * Len(b)) |->
        IF i % 2 = 1 THEN HexChar(b[(i + 1) \div 2] \div 16)
                     ELSE HexChar(b[i \div 2] % 16)]
\* bson.objectid.ObjectId(hash_): the 12 bytes the hex string decodes to
ObjectId(hash) == Unhexlify(hash)

Rep(c, n) == [i \in 1..n |-> c]

\* ------------------------------------------------------ caller's inputs
HashA == Rep("a", 24)
HashB == Rep("0", 22) \o <<"1", "f">>
\* the same twelve bytes as HashA, written in upper case
HashAUpper == Rep("A", 24)
ValidHashes == {HashA, HashB}
\* 11 bytes, 13 bytes, an odd number of digits, a non-hex digit, no digits
BadLengthHashes == {Rep("a", 22), Rep("a", 26), <<>>}
UndecodableHashes == {Rep("a", 23), Rep("a", 23) \o <<"g">>}
\* what os.urandom(12) returns
RandomBytes == {Unhexlify(HashB)}
NoHash == [given |-> FALSE, str |-> <<>>]
GivenHash(h) == [given |-> TRUE, str |-> h]
\* how the first log is made: TrainingLog(backend='default'), TrainingLog(),
\* TrainingLog(hash_=HashA); every further log attaches to experiment HashA
FirstLogArgs ==
    {<<NoHash, "default">>, <<NoHash, "mongodb">>,
     <<GivenHash(HashA), "mongodb">>}
\* every identity and selector a caller may pass
HashArgs ==
    {NoHash} \cup {GivenHash(h) : h \in ValidHashes \cup BadLengthHashes
                                        \cup UndecodableHashes}
Backends == {"default", "mongodb", "sqlite", "redis"}
\* the process that imports the module and builds the log. Its interpreter:
\* binascii.unhexlify raises TypeError on Python 2 and binascii.Error (a
\* ValueError) on Python 3. Its packages: whether bson and pymongo can be
\* imported.
Builds == [python : {"py2", "py3"}, pymongo : BOOLEAN]

LogIds == 1..MaxLogs
Timestamps == 0..MaxTime
ValidKeys == {IntV(t) : t \in Timestamps}
InvalidKeys == {IntV(-1), StrV(0), FloatV(1), NoneV}
Keys == ValidKeys \cup InvalidKeys
FieldNames == {"field", "field2"}
FieldValues == {IntV(45), NdArrayV(1)}

\* the keys of status and info the caller sets and deletes
MetaKeys == {"iterations_done", "epochs_done", "created", "note"}
\* the values the caller sets them to
MetaValues == {IntV(45), ListV(1)}

\* ------------------------------------------------------------------ state
VARIABLES
    logs,         \* the TrainingLog objects: [alive, backend, handler]
    experiments,  \* db['experiments']: the experiment metadata documents
    entries,      \* db['entries']: the log entry documents
    clock,        \* datetime.datetime.utcnow()
    last,         \* the last call the caller made, and how it ended
    written,      \* history: per store, timestamp -> field -> value written
    accessed,     \* history: per log object, the timestamps passed to log[t]
    nWrites,      \* number of field writes and deletes so far
    objs,         \* the MongoEntry objects the caller holds
    dbops,        \* the storage operations the last call issued
    pending,      \* per log, the statement in progress and what it has read
    incs          \* number of status['iterations_done'] += 1 statements done

\* the state that only the entry-object and interleaving actions change
ext == <<objs, dbops, pending, incs>>
vars == <<logs, experiments, entries, clock, last, written, accessed,
          nWrites, objs, dbops, pending, incs>>

\* ----------------------------------------------------- pymongo collections
\* the module-level try/except ImportError around the imports of
\* bson.objectid and pymongo
PYMONGO_AVAILABLE(build) == build.pymongo

\* a document matches a filter of equalities
Matches(d, flt) == \A k \in DOMAIN flt : k \in DOMAIN d /\ d[k] = flt[k]
\* index of the first matching document in natural order, 0 when none
FindFirst(coll, flt) ==
    IF \E i \in DOMAIN coll : Matches(coll[i], flt)
    THEN CHOOSE i \in DOMAIN coll :
            /\ Matches(coll[i], flt)
            /\ \A j \in 1..(i - 1) : ~Matches(coll[j], flt)
    ELSE 0
CountDocuments(coll, flt) ==
    Cardinality({i \in DOMAIN coll : Matches(coll[i], flt)})
\* what BSON stores for a value: tuples are cast to lists
BsonStored(v) == IF v.kind = "tuple" THEN ListV(v.val) ELSE v
\* update_one(flt, {'$set': {key: value}}, upsert=upsert) on flat documents
UpdateOneSet(coll, flt, key, value, upsert) ==
    LET i == FindFirst(coll, flt) IN
    IF i # 0 THEN [coll EXCEPT ![i] = Put(@, key, BsonStored(value))]
    ELSE IF upsert
         THEN Append(coll, Put(Put(flt, "_id", AutoIdV(Len(coll) + 1)),
                               key, BsonStored(value)))
         ELSE coll
\* update_one(flt, {'$unset': {key: ''}})
UpdateOneUnset(coll, flt, key) ==
    LET i == FindFirst(coll, flt) IN
    IF i # 0 THEN [coll EXCEPT ![i] = Del(@, key)] ELSE coll
\* update_one(flt, {'$setOnInsert': doc}, upsert=True)
UpdateOneSetOnInsert(coll, flt, doc) ==
    IF FindFirst(coll, flt) # 0 THEN coll ELSE Append(coll, doc)
\* update_one(flt, {'$set': {'<name>.<key>': value}}): a field of a
\* sub-document
UpdateOneSetPath(coll, flt, name, key, value) ==
    LET i == FindFirst(coll, flt) IN
    IF i # 0
    THEN [coll EXCEPT ![i] = Put(@, name, Put(@[name], key, BsonStored(value)))]
    ELSE coll

\* ------------------------------------------------------ DefaultOrderedDict
\* an ordered dict is the sequence of its items, in insertion order
DefaultOrderedDict(default_factory, items) ==
    [kind |-> "DefaultOrderedDict", default_factory |-> default_factory,
     items |-> items]
ItemIndex(items, key) ==
    IF \E i \in DOMAIN items : items[i].key = key
    THEN CHOOSE i \in DOMAIN items : items[i].key = key
    ELSE 0
\* OrderedDict.__setitem__: a new key goes last, an old key keeps its place
OrderedSetItem(items, key, value) ==
    LET i == ItemIndex(items, key) IN
    IF i # 0 THEN [items EXCEPT ![i].value = value]
    ELSE Append(items, [key |-> key, value |-> value])
\* the mutation of DodMissing that has no default factory
DodMissing_Raises(d, key) == [err |-> "KeyError", d |-> d]
\* DefaultOrderedDict.__missing__: what d[key] does for an absent key
DodMissing(d, key) ==
    IF d.default_factory = "None"
    THEN [err |-> "KeyError", d |-> d]
    ELSE [err |-> "", d |-> [d EXCEPT !.items = OrderedSetItem(@, key, EmptyDict)]]
\* d[key]: the dict after the lookup, and the error if it raised
DodGetItem(d, key) ==
    IF ItemIndex(d.items, key) # 0 THEN [err |-> "", d |-> d]
    ELSE DodMissing(d, key)
\* the mutation of DodReduce that leaves the items out
DodReduce_NoItems(d) ==
    [args |-> <<d.default_factory>>, dictitems |-> <<>>]
\* DefaultOrderedDict.__reduce__: (class, args, state, listitems, dictitems)
DodReduce(d) ==
    [args |-> <<d.default_factory>>, dictitems |-> d.items]
RECURSIVE SetItems(_, _)
SetItems(items, pairs) ==
    IF pairs = <<>> THEN items
    ELSE SetItems(OrderedSetItem(items, Head(pairs).key, Head(pairs).value),
                  Tail(pairs))
\* what pickle builds from the reduce value: class(*args), then obj[k] = v
DodRebuild(r) == DefaultOrderedDict(r.args[1], SetItems(<<>>, r.dictitems))

\* --------------------------------------------------------------- handlers
\* InMemoryHandler.__init__: the handler's __dict__
InMemoryHandler(log, hash) ==
    [log |-> log, hash_ |-> hash,
     entries |-> DefaultOrderedDict("dict", <<>>),
     status |-> EmptyDict, info |-> EmptyDict]

Handle(class) == [kind |-> class, val |-> 0]
\* MongoDBHandler._connect: the attributes it binds
ConnectAttrs(h) ==
    [x \in (DOMAIN h) \cup {"objectid", "client", "db", "experiments",
                            "entries", "info", "status"} |->
        CASE x = "objectid" -> ObjectId(h["hash_"])
          [] x = "client" -> Handle("MongoClient")
          [] x = "db" -> Handle("Database")
          [] x = "experiments" -> Handle("Collection")
          [] x = "entries" -> Handle("MongoDBEntries")
          [] x = "info" -> Handle("MongoDBDict")
          [] x = "status" -> Handle("MongoDBDict")
          [] OTHER -> h[x]]
\* MongoDBHandler._connect: create the experiment if it does not exist
ConnectUpsert(exps, oid) ==
    UpdateOneSetOnInsert(exps, [_id |-> OidV(oid)],
        [_id |-> OidV(oid), info |-> EmptyDict, status |-> EmptyDict])
\* MongoDBHandler.__init__ up to the call of _connect
MongoDBHandlerInit(log, hash) ==
    [log |-> log, hash_ |-> hash, host |-> "localhost", port |-> 27017,
     database |-> "blocks"]
\* MongoDBHandler.__getstate__
HandleAttrs ==
    {"client", "db", "info", "status", "entries", "experiments", "objectid"}
\* the mutation of MongoGetState that keeps the client
MongoGetState_KeepsClient(h) == Project(h, HandleAttrs \ {"client"})
MongoGetState(h) == Project(h, HandleAttrs)

\* --------------------------------------------- MongoDBDict (info, status)
\* MongoDBDict._get: find_one(filter, projection=[name])[name]
MongoDBDictGet(exps, oid, name) ==
    LET i == FindFirst(exps, [_id |-> OidV(oid)]) IN
    IF i = 0 THEN [err |-> "TypeError", dict |-> EmptyDict]
    ELSE [err |-> "", dict |-> exps[i][name]]
\* MongoDBDict.__setitem__
MongoDBDictSetItem(exps, oid, name, key, value) ==
    UpdateOneSetPath(exps, [_id |-> OidV(oid)], name, key, value)
\* the mutation of MongoDBDictSetDefault that overwrites
MongoDBDictSetDefault_Overwrite(exps, oid, name, key, value) ==
    MongoDBDictSetItem(exps, oid, name, key, value)
\* MutableMapping.setdefault on a MongoDBDict: self[key], and on KeyError
\* self[key] = default
MongoDBDictSetDefault(exps, oid, name, key, value) ==
    LET g == MongoDBDictGet(exps, oid, name) IN
    IF g.err = "" /\ key \notin DOMAIN g.dict
    THEN MongoDBDictSetItem(exps, oid, name, key, value)
    ELSE exps
\* what delete_one(filter, document) does with its second argument: a
\* driver whose delete_one takes the filter only raises TypeError, a driver
\* that takes it as the collation sends it and the server refuses it
Drivers == {"filter only", "collation"}
\* the mutation of MongoDBDictDelItem that deletes the document the filter
\* matches
MongoDBDictDelItem_DeletesDocument(exps, oid, name, key, driver) ==
    [err |-> "", msg |-> "",
     exps |-> SelectSeq(exps, LAMBDA d : ~Matches(d, [_id |-> OidV(oid)]))]
\* MongoDBDict.__delitem__: delete_one(self._filter, {'$unset': ...})
MongoDBDictDelItem(exps, oid, name, key, driver) ==
    IF driver = "filter only"
    THEN [err |-> "TypeError", msg |-> "delete_one", exps |-> exps]
    ELSE [err |-> "OperationFailure", msg |-> "collation", exps |-> exps]
\* dict.setdefault
DictSetDefault(d, key, value) == IF key \in DOMAIN d THEN d ELSE Put(d, key, value)

\* ------------------------------------------- MongoDBEntries, MongoEntry
ScopingKeys == {"_id", "experiment", "iteration"}
\* the mutation of EntryFilter that leaves the experiment out
EntryFilter_AnyExperiment(oid, iteration) == [iteration |-> iteration]
EntryFilter(oid, iteration) ==
    [experiment |-> OidV(oid), iteration |-> iteration]
\* the mutation of MongoEntryGet that returns the document whole
MongoEntryGet_WholeDocument(ents, oid, iteration) ==
    LET i == FindFirst(ents, EntryFilter(oid, iteration)) IN
    IF i = 0 THEN EmptyDict ELSE ents[i]
\* MongoEntry._get
MongoEntryGet(ents, oid, iteration) ==
    LET i == FindFirst(ents, EntryFilter(oid, iteration)) IN
    IF i = 0 THEN EmptyDict ELSE Project(ents[i], ScopingKeys)
\* numpy.ndarray.tolist
ToList(v) == ListV(v.val)
\* MongoEntry.__setitem__
MongoEntrySetItem(ents, oid, iteration, key, value) ==
    UpdateOneSet(ents, EntryFilter(oid, iteration), key,
                 IF value.kind = "ndarray" THEN ToList(value) ELSE value, TRUE)
\* MongoEntry.__delitem__
MongoEntryDelItem(ents, oid, iteration, key) ==
    UpdateOneUnset(ents, EntryFilter(oid, iteration), key)
\* the mutation of MongoDBEntriesLen that counts every experiment's documents
MongoDBEntriesLen_AllExperiments(ents, oid) == Len(ents)
\* MongoDBEntries.__len__
MongoDBEntriesLen(ents, oid) ==
    CountDocuments(ents, [experiment |-> OidV(oid)])

\* ------------------------------------------------------------ TrainingLog
NoLog == [alive |-> FALSE, backend |-> "none", handler |-> EmptyDict]
\* the log objects and the two collections of the database: what the
\* operations of a log read and change
World == [logs |-> logs, experiments |-> experiments, entries |-> entries]
IsMemory(w, l) == w.logs[l].alive /\ w.logs[l].backend = "default"
IsMongo(w, l) == w.logs[l].alive /\ w.logs[l].backend = "mongodb"
Oid(w, l) == w.logs[l].handler["objectid"]

\* TrainingLog.__init__, the check of hash_: the error raised, if any, and
\* the hash used
HashCheck(arg, build, random) ==
    IF ~arg.given
    THEN [err |-> "", msg |-> "", hash_ |-> Hexlify(random)]
    ELSE IF ~UnhexlifyOk(arg.str)
    THEN IF build.python = "py2"
         THEN [err |-> "UnboundLocalError", msg |-> "hash_bytes", hash_ |-> <<>>]
         ELSE [err |-> "binascii.Error", msg |-> "unhexlify", hash_ |-> <<>>]
    ELSE IF Len(Unhexlify(arg.str)) # 12
    THEN [err |-> "ValueError", msg |-> "invalid hash", hash_ |-> <<>>]
    ELSE [err |-> "", msg |-> "", hash_ |-> arg.str]
\* TrainingLog.__init__, the choice of the handler
BackendCheck(backend, build) ==
    IF backend = "default" THEN [err |-> "", msg |-> ""]
    ELSE IF backend = "mongodb"
    THEN IF PYMONGO_AVAILABLE(build) THEN [err |-> "", msg |-> ""]
         ELSE [err |-> "ImportError", msg |-> "pymongo not installed"]
    ELSE [err |-> "ValueError", msg |-> "unknown backend"]
\* TrainingLog.__init__: the exception it raises, if any
InitError(arg, backend, build, random) ==
    LET hc == HashCheck(arg, build, random)
        bc == BackendCheck(backend, build) IN
    IF hc.err # "" THEN [err |-> hc.err, msg |-> hc.msg]
    ELSE [err |-> bc.err, msg |-> bc.msg]
\* TrainingLog.__init__ once hash_ and backend are accepted: the handler is
\* built, then info['created'] and the two counters of status get their
\* defaults; `now` is what datetime.now() returns
Constructed(w, l, hash, backend, now) ==
    IF backend = "default"
    THEN [w EXCEPT !.logs[l] =
            [alive |-> TRUE, backend |-> "default",
             handler |->
               [InMemoryHandler(l, hash) EXCEPT
                  !.info = DictSetDefault(@, "created", DateV(now)),
                  !.status = DictSetDefault(
                      DictSetDefault(@, "iterations_done", IntV(0)),
                      "epochs_done", IntV(0))]]]
    ELSE LET oid == ObjectId(hash)
             e1 == ConnectUpsert(w.experiments, oid)
             e2 == MongoDBDictSetDefault(e1, oid, "info", "created",
                                         DateV(now))
             e3 == MongoDBDictSetDefault(e2, oid, "status",
                                         "iterations_done", IntV(0))
             e4 == MongoDBDictSetDefault(e3, oid, "status", "epochs_done",
                                         IntV(0))
         IN [w EXCEPT !.logs[l] =
                [alive |-> TRUE, backend |-> "mongodb",
                 handler |-> ConnectAttrs(MongoDBHandlerInit(l, hash))],
               !.experiments = e4]

\* the mutation of ValidTimestamp that accepts every integer
ValidTimestamp_AnyInteger(key) == key.kind = "int"
\* TrainingLog.__getitem__: the check of the timestamp
ValidTimestamp(key) == key.kind = "int" /\ key.val >= 0

\* log.status and log.info as the caller reads them
StatusOf(w, l) ==
    IF w.logs[l].backend = "default"
    THEN [err |-> "", dict |-> w.logs[l].handler["status"]]
    ELSE MongoDBDictGet(w.experiments, Oid(w, l), "status")
InfoOf(w, l) ==
    IF w.logs[l].backend = "default"
    THEN [err |-> "", dict |-> w.logs[l].handler["info"]]
    ELSE MongoDBDictGet(w.experiments, Oid(w, l), "info")
\* len(log)
LogLen(w, l) ==
    IF w.logs[l].backend = "default"
    THEN Len(w.logs[l].handler["entries"].items)
    ELSE MongoDBEntriesLen(w.entries, Oid(w, l))
\* MongoDBEntries.__iter__: the 'iteration' of every document of the
\* experiment, in the order find() returns them
RECURSIVE MongoDBEntriesIter(_, _)
MongoDBEntriesIter(ents, oid) ==
    IF ents = <<>> THEN <<>>
    ELSE IF Matches(Head(ents), [experiment |-> OidV(oid)])
         THEN <<Head(ents)["iteration"]>> \o MongoDBEntriesIter(Tail(ents), oid)
         ELSE MongoDBEntriesIter(Tail(ents), oid)
\* list(log)
LogIter(w, l) ==
    IF w.logs[l].backend = "default"
    THEN [i \in DOMAIN w.logs[l].handler["entries"].items |->
             w.logs[l].handler["entries"].items[i].key]
    ELSE MongoDBEntriesIter(w.entries, Oid(w, l))

\* TrainingLog.__getitem__: the error it raises, if any, and the world after
\* the call
LogGetItem(w, l, key) ==
    IF ~ValidTimestamp(key)
    THEN [err |-> "TypeError", msg |-> "invalid timestamp", w |-> w]
    ELSE IF w.logs[l].backend = "default"
    THEN LET r == DodGetItem(w.logs[l].handler["entries"], key) IN
         [err |-> r.err, msg |-> "",
          w |-> [w EXCEPT !.logs[l].handler.entries = r.d]]
    ELSE [err |-> "", msg |-> "", w |-> w]
\* dict(e) for the entry e that log[key] returned, read in world w
EntryDict(w, l, key) ==
    IF w.logs[l].backend = "default"
    THEN LET items == w.logs[l].handler["entries"].items IN
         items[ItemIndex(items, key)].value
    ELSE MongoEntryGet(w.entries, Oid(w, l), key)
\* dict(log[key]): the error raised, if any, and the mapping
Contents(w, l, key) ==
    LET g == LogGetItem(w, l, key) IN
    IF g.err # "" THEN [err |-> g.err, dict |-> EmptyDict]
    ELSE [err |-> "", dict |-> EntryDict(g.w, l, key)]

\* the mutation of GetItemField that returns a default for an absent field
GetItemField_Default(w, l, key, field) ==
    LET g == LogGetItem(w, l, key) IN
    IF g.err # ""
    THEN [err |-> g.err, msg |-> g.msg, ret |-> NoneV, w |-> g.w]
    ELSE LET e == EntryDict(g.w, l, key) IN
         [err |-> "", msg |-> "", w |-> g.w,
          ret |-> IF field \in DOMAIN e THEN e[field] ELSE NoneV]
\* log[key][field]: the exception raised, if any, the value returned and
\* the world after the call
GetItemField(w, l, key, field) ==
    LET g == LogGetItem(w, l, key) IN
    IF g.err # ""
    THEN [err |-> g.err, msg |-> g.msg, ret |-> NoneV, w |-> g.w]
    ELSE LET e == EntryDict(g.w, l, key) IN
         IF field \notin DOMAIN e
         THEN [err |-> "KeyError", msg |-> field, ret |-> NoneV, w |-> g.w]
         ELSE [err |-> "", msg |-> "", ret |-> e[field], w |-> g.w]

\* dict.__setitem__ on the in-memory entry of `key`
MemEntrySetItem(d, key, field, value) ==
    [d EXCEPT !.items[ItemIndex(d.items, key)].value = Put(@, field, value)]
\* dict.__delitem__ on the in-memory entry of `key`
MemEntryDelItem(d, key, field) ==
    [d EXCEPT !.items[ItemIndex(d.items, key)].value = Del(@, field)]
\* log[key][field] = value: the exception raised, if any, and the world
\* after the call
SetItemField(w, l, key, field, value) ==
    LET g == LogGetItem(w, l, key) IN
    IF g.err # "" THEN g
    ELSE IF w.logs[l].backend = "default"
    THEN [g EXCEPT !.w.logs[l].handler.entries =
                       MemEntrySetItem(@, key, field, value)]
    ELSE [g EXCEPT !.w.entries =
                       MongoEntrySetItem(@, Oid(w, l), key, field, value)]

\* del log[key][field]: the exception raised, if any, and the world after
\* the call
DelItemField(w, l, key, field) ==
    LET g == LogGetItem(w, l, key) IN
    IF g.err # "" THEN g
    ELSE IF w.logs[l].backend = "default"
    THEN IF field \notin DOMAIN EntryDict(g.w, l, key)
         THEN [err |-> "KeyError", msg |-> field, w |-> g.w]
         ELSE [g EXCEPT !.w.logs[l].handler.entries =
                            MemEntryDelItem(@, key, field)]
    ELSE [g EXCEPT !.w.entries =
                       MongoEntryDelItem(@, Oid(w, l), key, field)]

\* log.status and log.info, by the name of the handler's attribute
MetaNames == {"status", "info"}
MetaOf(w, l, name) == IF name = "status" THEN StatusOf(w, l) ELSE InfoOf(w, l)
\* log.status[key] and log.info[key]: the exception raised, if any, and
\* the value
MetaGetItem(w, l, name, key) ==
    LET d == MetaOf(w, l, name) IN
    IF d.err # "" THEN [err |-> d.err, msg |-> "", ret |-> NoneV]
    ELSE IF key \notin DOMAIN d.dict
    THEN [err |-> "KeyError", msg |-> key, ret |-> NoneV]
    ELSE [err |-> "", msg |-> "", ret |-> d.dict[key]]
\* log.status[key] = value and log.info[key] = value: the world after;
\* MongoDBDict.__setitem__ hands the value to pymongo as it is, which
\* cannot encode a numpy array
MetaSetItem(w, l, name, key, value) ==
    IF w.logs[l].backend = "default"
    THEN [err |-> "", msg |-> "",
          w |-> [w EXCEPT !.logs[l].handler[name] = Put(@, key, value)]]
    ELSE IF value.kind = "ndarray"
    THEN [err |-> "InvalidDocument", msg |-> "cannot encode", w |-> w]
    ELSE [err |-> "", msg |-> "",
          w |-> [w EXCEPT !.experiments =
                    MongoDBDictSetItem(@, Oid(w, l), name, key, value)]]
\* del log.status[key] and del log.info[key]: the exception raised, if
\* any, and the world after
MetaDelItem(w, l, name, key, driver) ==
    IF w.logs[l].backend = "default"
    THEN IF key \notin DOMAIN w.logs[l].handler[name]
         THEN [err |-> "KeyError", msg |-> key, w |-> w]
         ELSE [err |-> "", msg |-> "",
               w |-> [w EXCEPT !.logs[l].handler[name] = Del(@, key)]]
    ELSE LET r == MongoDBDictDelItem(w.experiments, Oid(w, l), name, key,
                                     driver) IN
         [err |-> r.err, msg |-> r.msg, w |-> [w EXCEPT !.experiments = r.exps]]

\* the values from which Python subtracts an integer: numbers, and numpy
\* arrays, element by element
Subtractable == {"int", "float", "ndarray"}
\* what log.current_entry (back = 0) and log.previous_entry (back = 1) pass
\* to log[...]: self.status['iterations_done'] as it is stored, and
\* self.status['iterations_done'] - 1, which raises TypeError for a value
\* that has no subtraction; log[...] then checks the key
EntryKey(w, l, back) ==
    LET s == StatusOf(w, l) IN
    IF s.err # "" THEN [err |-> s.err, key |-> NoneV]
    ELSE IF "iterations_done" \notin DOMAIN s.dict
    THEN [err |-> "KeyError", key |-> NoneV]
    ELSE LET n == s.dict["iterations_done"] IN
         IF back = 0 THEN [err |-> "", key |-> n]
         ELSE IF n.kind \in Subtractable
         THEN [err |-> "", key |-> [n EXCEPT !.val = @ - back]]
         ELSE [err |-> "TypeError", key |-> NoneV]
current_entry(w, l) == EntryKey(w, l, 0)
\* the mutation of previous_entry that does not step back
previous_entry_NoStep(w, l) == EntryKey(w, l, 0)
previous_entry(w, l) == EntryKey(w, l, 1)

\* dict(log.current_entry) (back = 0) and dict(log.previous_entry) (back = 1)
ShortcutDict(w, l, back) ==
    LET k == IF back = 0 THEN current_entry(w, l) ELSE previous_entry(w, l) IN
    IF k.err # "" THEN [err |-> k.err, dict |-> EmptyDict]
    ELSE Contents(w, l, k.key)

\* what the caller can observe of log l: status, info, len(log), list(log),
\* dict(log[t]) for every timestamp, dict(log.current_entry)
View(w, l) ==
    [status |-> StatusOf(w, l), info |-> InfoOf(w, l), size |-> LogLen(w, l),
     order |-> LogIter(w, l),
     contents |-> [t \in Timestamps |-> Contents(w, l, IntV(t))],
     current |-> ShortcutDict(w, l, 0)]

\* ----------------------------------------------------------------- pickle
\* cPickle.dumps(log): the handler's state as pickle stores it
Dumps(w, l) ==
    IF w.logs[l].backend = "default"
    THEN [backend |-> "default",
          state |-> [w.logs[l].handler EXCEPT !.entries = DodReduce(@)]]
    ELSE [backend |-> "mongodb", state |-> MongoGetState(w.logs[l].handler)]
\* cPickle.loads: the handler rebuilt from its state (MongoDBHandler:
\* __setstate__, which calls _connect)
LoadsHandler(p) ==
    IF p.backend = "default"
    THEN [p.state EXCEPT !.entries = DodRebuild(@)]
    ELSE ConnectAttrs(p.state)
LoadsExperiments(p, exps) ==
    IF p.backend = "default" THEN exps
    ELSE ConnectUpsert(exps, ObjectId(p.state["hash_"]))
\* cPickle.loads(cPickle.dumps(log)) bound to the name of log l
RoundTrip(w, l) ==
    [w EXCEPT !.logs[l].handler = LoadsHandler(Dumps(w, l)),
              !.experiments = LoadsExperiments(Dumps(w, l), w.experiments)]

\* ---------------------------------------------------------------- actions
\* the call the caller made last and the exception it raised ("" for none)
Call(op, l, err, msg) == [op |-> op, log |-> l, err |-> err, msg |-> msg]
AllOids == {Unhexlify(h) : h \in ValidHashes} \cup RandomBytes

Init ==
    /\ logs = [l \in LogIds |-> NoLog]
    /\ experiments = <<>>
    /\ entries = <<>>
    /\ clock = 0
    /\ last = Call("none", 0, "", "")
    /\ written = [mem |-> [l \in LogIds |-> EmptyDict],
                  db |-> [o \in AllOids |-> EmptyDict]]
    /\ accessed = [l \in LogIds |-> {}]
    /\ nWrites = 0
    /\ objs = <<>>
    /\ dbops = <<>>
    /\ pending = [l \in LogIds |-> NoneV]
    /\ incs = 0

\* the history of the store that log l writes to
WrittenOf(l) ==
    IF logs[l].backend = "default" THEN written.mem[l]
    ELSE written.db[Oid(World, l)]
RecordWrite(l, t, f, v) ==
    LET old == WrittenOf(l)
        e == IF t \in DOMAIN old THEN old[t] ELSE EmptyDict
        new == Put(old, t, Put(e, f, v)) IN
    IF logs[l].backend = "default"
    THEN [written EXCEPT !.mem[l] = new]
    ELSE [written EXCEPT !.db[Oid(World, l)] = new]
RecordDelete(l, t, f) ==
    LET old == WrittenOf(l) IN
    IF t \notin DOMAIN old THEN written
    ELSE IF logs[l].backend = "default"
    THEN [written EXCEPT !.mem[l] = Put(old, t, Del(old[t], f))]
    ELSE [written EXCEPT !.db[Oid(World, l)] = Put(old, t, Del(old[t], f))]
RecordAccess(l, key) ==
    IF logs[l].backend = "default" /\ ValidTimestamp(key)
    THEN [accessed EXCEPT ![l] = @ \cup {key.val}]
    ELSE accessed

\* log = TrainingLog(hash_, backend)
Construct(l, arg, backend, build, random) ==
    /\ ~logs[l].alive
    /\ LET e == InitError(arg, backend, build, random)
           hash == HashCheck(arg, build, random).hash_ IN
       /\ last' = Call("init", l, e.err, e.msg)
       /\ IF e.err # ""
          THEN UNCHANGED <<logs, experiments, entries, clock, written,
                           accessed, nWrites>>
          ELSE LET w == Constructed(World, l, hash, backend, clock) IN
               /\ clock' = clock + 1
               /\ logs' = w.logs
               /\ experiments' = w.experiments
               /\ written' = [written EXCEPT !.mem[l] = EmptyDict]
               /\ accessed' = [accessed EXCEPT ![l] = {}]
               /\ UNCHANGED <<entries, nWrites>>
    /\ UNCHANGED ext

\* the mapping of log[key], read whole: dict(log[key]), log[key] == {...}
GetEntry(l, key) ==
    /\ logs[l].alive
    /\ LET g == LogGetItem(World, l, key) IN
       /\ logs' = g.w.logs
       /\ accessed' = RecordAccess(l, key)
       /\ last' = Call("get", l, g.err, g.msg)
    /\ UNCHANGED <<experiments, entries, clock, written, nWrites>>
    /\ UNCHANGED ext

\* log[key][field]
ReadField(l, key, field) ==
    /\ logs[l].alive
    /\ LET r == GetItemField(World, l, key, field) IN
       /\ logs' = r.w.logs
       /\ last' = Call("read", l, r.err, r.msg)
    /\ accessed' = RecordAccess(l, key)
    /\ UNCHANGED <<experiments, entries, clock, written, nWrites>>
    /\ UNCHANGED ext

\* log[key][field] = value, for the call `op` the caller made
SetItemStep(op, l, key, field, value) ==
    LET s == SetItemField(World, l, key, field, value) IN
    /\ nWrites < MaxWrites
    /\ nWrites' = nWrites + 1
    /\ accessed' = RecordAccess(l, key)
    /\ last' = Call(op, l, s.err, s.msg)
    /\ logs' = s.w.logs
    /\ entries' = s.w.entries
    /\ written' = IF s.err # "" THEN written
                  ELSE RecordWrite(l, key.val, field, value)
    /\ UNCHANGED <<experiments, clock>>

\* log[key][field] = value
WriteField(l, key, field, value) ==
    /\ logs[l].alive
    /\ SetItemStep("write", l, key, field, value)
    /\ UNCHANGED ext

\* del log[key][field]
DeleteField(l, key, field) ==
    /\ logs[l].alive
    /\ nWrites < MaxWrites
    /\ nWrites' = nWrites + 1
    /\ LET g == LogGetItem(World, l, key)
           absent == g.err = "" /\ logs[l].backend = "default"
                     /\ field \notin DOMAIN EntryDict(g.w, l, key)
       IN
       /\ accessed' = RecordAccess(l, key)
       /\ IF g.err # "" \/ absent
          THEN /\ logs' = g.w.logs
               /\ last' = IF absent THEN Call("delete", l, "KeyError", field)
                          ELSE Call("delete", l, g.err, g.msg)
               /\ UNCHANGED <<entries, written>>
          ELSE /\ last' = Call("delete", l, "", "")
               /\ written' = RecordDelete(l, key.val, field)
               /\ IF logs[l].backend = "default"
                  THEN /\ logs' = [g.w.logs EXCEPT ![l].handler.entries =
                                       MemEntryDelItem(@, key, field)]
                       /\ UNCHANGED entries
                  ELSE /\ entries' = MongoEntryDelItem(entries,
                                         Oid(World, l), key, field)
                       /\ logs' = g.w.logs
    /\ UNCHANGED <<experiments, clock>>
    /\ UNCHANGED ext

\* dict(log.current_entry) (back = 0), dict(log.previous_entry) (back = 1)
ReadShortcut(l, back) ==
    /\ logs[l].alive
    /\ LET k == IF back = 0 THEN current_entry(World, l)
                ELSE previous_entry(World, l)
           op == IF back = 0 THEN "current" ELSE "previous" IN
       IF k.err # ""
       THEN /\ last' = Call(op, l, k.err, "")
            /\ UNCHANGED <<logs, accessed>>
       ELSE LET g == LogGetItem(World, l, k.key) IN
            /\ logs' = g.w.logs
            /\ accessed' = RecordAccess(l, k.key)
            /\ last' = Call(op, l, g.err, g.msg)
    /\ UNCHANGED <<experiments, entries, clock, written, nWrites>>
    /\ UNCHANGED ext

\* log.current_entry[field] = value
WriteCurrent(l, field, value) ==
    /\ logs[l].alive
    /\ current_entry(World, l).err = ""
    /\ SetItemStep("write_current", l, current_entry(World, l).key, field,
                   value)
    /\ UNCHANGED ext

\* log.status['iterations_done'] += 1
IncIterations(l) ==
    /\ logs[l].alive
    /\ LET s == StatusOf(World, l) IN
       /\ s.err = ""
       /\ "iterations_done" \in DOMAIN s.dict
       /\ s.dict["iterations_done"].val < MaxIter
       /\ LET n == IntV(s.dict["iterations_done"].val + 1) IN
          IF logs[l].backend = "default"
          THEN /\ logs' = [logs EXCEPT ![l].handler.status =
                               Put(@, "iterations_done", n)]
               /\ UNCHANGED experiments
          ELSE /\ experiments' = MongoDBDictSetItem(experiments,
                                     Oid(World, l), "status",
                                     "iterations_done", n)
               /\ UNCHANGED logs
    /\ last' = Call("inc", l, "", "")
    /\ UNCHANGED <<entries, clock, written, accessed, nWrites>>
    /\ UNCHANGED ext

\* log = cPickle.loads(cPickle.dumps(log))
PickleRoundTrip(l) ==
    /\ logs[l].alive
    /\ logs' = RoundTrip(World, l).logs
    /\ experiments' = RoundTrip(World, l).experiments
    /\ last' = Call("roundtrip", l, "", "")
    /\ UNCHANGED <<entries, clock, written, accessed, nWrites>>
    /\ UNCHANGED ext

Next ==
    \/ \E a \in FirstLogArgs, build \in Builds, random \in RandomBytes :
          Construct(1, a[1], a[2], build, random)
    \/ \E l \in LogIds \ {1}, build \in Builds, random \in RandomBytes :
          Construct(l, GivenHash(HashA), "mongodb", build, random)
    \/ \E l \in LogIds, key \in Keys : GetEntry(l, key)
    \/ \E l \in LogIds, key \in ValidKeys, field \in FieldNames :
          ReadField(l, key, field)
    \/ \E l \in LogIds, key \in ValidKeys, field \in FieldNames,
          value \in FieldValues : WriteField(l, key, field, value)
    \/ \E l \in LogIds, key \in ValidKeys, field \in FieldNames :
          DeleteField(l, key, field)
    \/ \E l \in LogIds, back \in {0, 1} : ReadShortcut(l, back)
    \/ \E l \in LogIds, field \in FieldNames, value \in FieldValues :
          WriteCurrent(l, field, value)
    \/ \E l \in LogIds : IncIterations(l)
    \/ \E l \in LogIds : PickleRoundTrip(l)

Spec == Init /\ [][Next]_vars

\* construction with every identity and selector a caller may pass, and the
\* first use of the logs it made
NextInit ==
    \/ \E l \in LogIds, arg \in HashArgs, backend \in Backends,
          build \in Builds, random \in RandomBytes :
          Construct(l, arg, backend, build, random)
    \/ \E l \in LogIds, key \in Keys : GetEntry(l, key)
    \/ \E l \in LogIds : IncIterations(l)

SpecInit == Init /\ [][NextInit]_vars

\* ------------------------------------------------------- status and info
\* the counters TrainingLog.__init__ puts in status
BaseCounters == {"iterations_done", "epochs_done"}

\* log.status[key] = value (name = "status"), log.info[key] = value ("info")
SetMeta(l, name, key, value) ==
    /\ logs[l].alive
    /\ nWrites < MaxWrites
    /\ nWrites' = nWrites + 1
    /\ LET r == MetaSetItem(World, l, name, key, value) IN
       /\ logs' = r.w.logs
       /\ experiments' = r.w.experiments
       /\ last' = Call(IF name = "status" THEN "set_status" ELSE "set_info",
                       l, r.err, r.msg)
    /\ UNCHANGED <<entries, clock, written, accessed>>
    /\ UNCHANGED ext

\* del log.status[key], for a key that is not one of the two counters, and
\* del log.info[key]
DelMeta(l, name, key, driver) ==
    /\ logs[l].alive
    /\ name = "status" => key \notin BaseCounters
    /\ nWrites < MaxWrites
    /\ nWrites' = nWrites + 1
    /\ LET r == MetaDelItem(World, l, name, key, driver) IN
       /\ logs' = r.w.logs
       /\ experiments' = r.w.experiments
       /\ last' = Call(IF name = "status" THEN "del_status" ELSE "del_info",
                       l, r.err, r.msg)
    /\ UNCHANGED <<entries, clock, written, accessed>>
    /\ UNCHANGED ext

\* construction, also with an identity in use, entry writes and deletes,
\* sets and deletes of keys of status and info, serialize/restore
NextMeta ==
    \/ \E a \in FirstLogArgs, build \in Builds, random \in RandomBytes :
          Construct(1, a[1], a[2], build, random)
    \/ \E l \in LogIds \ {1}, build \in Builds, random \in RandomBytes :
          Construct(l, GivenHash(HashA), "mongodb", build, random)
    \/ \E l \in LogIds, name \in MetaNames, key \in MetaKeys,
          value \in MetaValues : SetMeta(l, name, key, value)
    \/ \E l \in LogIds, name \in MetaNames, key \in MetaKeys,
          driver \in Drivers : DelMeta(l, name, key, driver)
    \/ \E l \in LogIds, key \in ValidKeys, field \in FieldNames,
          value \in FieldValues : WriteField(l, key, field, value)
    \/ \E l \in LogIds, key \in ValidKeys, field \in FieldNames :
          DeleteField(l, key, field)
    \/ \E l \in LogIds : PickleRoundTrip(l)

SpecMeta == Init /\ [][NextMeta]_vars

\* ------------------------------------------------- MongoEntry objects
\* the calls pymongo sends to the server for db['entries']
FindOne(flt, hidden) ==
    [op |-> "find_one", coll |-> "entries", filter |-> flt,
     projection |-> hidden]
UpdateOne(flt, operator, key, value, upsert) ==
    [op |-> "update_one", coll |-> "entries", filter |-> flt,
     update |-> [operator |-> operator, key |-> key, value |-> value],
     upsert |-> upsert]
\* MongoEntry.__init__: the object log[key] returns; `queries` counts the
\* calls of _get that __getitem__, __iter__ and __len__ made through the
\* object and `first` is what the first of them returned
MongoEntry(l, oid, iteration) ==
    [log |-> l, objectid |-> oid, iteration |-> iteration, queries |-> 0,
     first |-> NoneV]
\* MongoEntry._get through object e: the mapping and the calls sent
LazyGet(ents, e) ==
    [dict |-> MongoEntryGet(ents, e.objectid, e.iteration),
     ops |-> <<FindOne(EntryFilter(e.objectid, e.iteration), ScopingKeys)>>]
\* LazyMapping.__getitem__ (how = "getitem"), __iter__ ("iter"), __len__
\* ("len") and __repr__ ("repr") on object e: each calls self._get() once
LazyRead(ents, e, how, key) ==
    LET g == LazyGet(ents, e) IN
    [err |-> IF how = "getitem" /\ key \notin DOMAIN g.dict
             THEN "KeyError" ELSE "",
     dict |-> g.dict, ops |-> g.ops]
\* the mutation of LazySetItem that reads the entry before it writes
LazySetItem_ReadFirst(ents, e, key, value) ==
    LET stored == IF value.kind = "ndarray" THEN ToList(value) ELSE value IN
    [ents |-> MongoEntrySetItem(ents, e.objectid, e.iteration, key, value),
     ops |-> LazyGet(ents, e).ops \o
             <<UpdateOne(EntryFilter(e.objectid, e.iteration), "$set", key,
                         stored, TRUE)>>]
\* MongoEntry.__setitem__ through object e: the collection after, and the
\* calls sent
LazySetItem(ents, e, key, value) ==
    LET stored == IF value.kind = "ndarray" THEN ToList(value) ELSE value IN
    [ents |-> MongoEntrySetItem(ents, e.objectid, e.iteration, key, value),
     ops |-> <<UpdateOne(EntryFilter(e.objectid, e.iteration), "$set", key,
                         stored, TRUE)>>]
\* MongoEntry.__delitem__ through object e
LazyDelItem(ents, e, key) ==
    [ents |-> MongoEntryDelItem(ents, e.objectid, e.iteration, key),
     ops |-> <<UpdateOne(EntryFilter(e.objectid, e.iteration), "$unset", key,
                         StrV(0), FALSE)>>]

\* the call made last through object o of the caller
ObjCall(op, o, err, field, value, dict) ==
    [op |-> op, log |-> objs[o].log, err |-> err, msg |-> "", obj |-> o,
     field |-> field, value |-> value, dict |-> dict]
LazyFrame == UNCHANGED <<logs, experiments, clock, accessed, pending, incs>>

\* e = log[key] on a MongoDB log: TrainingLog.__getitem__, then
\* MongoDBEntries.__getitem__ builds the object
ObtainEntry(l, key) ==
    /\ IsMongo(World, l)
    /\ Len(objs) < MaxObjs
    /\ LET g == LogGetItem(World, l, key) IN
       /\ objs' = IF g.err # "" THEN objs
                  ELSE Append(objs, MongoEntry(l, Oid(World, l), key))
       /\ last' = [op |-> "obtain", log |-> l, err |-> g.err, msg |-> g.msg,
                   obj |-> Len(objs'), field |-> "", value |-> NoneV,
                   dict |-> EmptyDict]
    /\ dbops' = <<>>
    /\ UNCHANGED <<entries, written, nWrites>>
    /\ LazyFrame

\* the methods of LazyMapping that read the contents of the entry
ReadMethods == {"getitem", "iter", "len"}
\* one call of a method of object o: e.__getitem__(field) ("getitem"),
\* e.__iter__() ("iter"), e.__len__() ("len"). A statement of the caller
\* may make several of these calls: list(e) and dict(e) call __len__ as
\* well as __iter__, as many times as the interpreter chooses.
EntryRead(o, how, field) ==
    /\ o \in DOMAIN objs
    /\ how \in ReadMethods
    /\ objs[o].queries < MaxQueries
    /\ LET r == LazyRead(entries, objs[o], how, field) IN
       /\ dbops' = r.ops
       /\ last' = ObjCall(how, o, r.err, IF how = "getitem" THEN field ELSE "",
                          NoneV, r.dict)
       /\ objs' = [objs EXCEPT
                     ![o].queries = @ + Len(SelectSeq(r.ops,
                                        LAMBDA c : c.op = "find_one")),
                     ![o].first = IF objs[o].queries = 0 THEN r.dict ELSE @]
    /\ UNCHANGED <<entries, written, nWrites>>
    /\ LazyFrame

\* repr(e), str(e): LazyMapping.__repr__ on object o
EntryRepr(o) ==
    /\ o \in DOMAIN objs
    /\ LET r == LazyRead(entries, objs[o], "repr", "") IN
       /\ dbops' = r.ops
       /\ last' = ObjCall("repr", o, r.err, "", NoneV, r.dict)
    /\ UNCHANGED <<entries, written, nWrites, objs>>
    /\ LazyFrame

\* e[field] = value on object o
EntrySetItem(o, field, value) ==
    /\ o \in DOMAIN objs
    /\ nWrites < MaxWrites
    /\ nWrites' = nWrites + 1
    /\ LET r == LazySetItem(entries, objs[o], field, value) IN
       /\ entries' = r.ents
       /\ dbops' = r.ops
    /\ written' = RecordWrite(objs[o].log, objs[o].iteration.val, field, value)
    /\ last' = ObjCall("setitem", o, "", field, value, EmptyDict)
    /\ UNCHANGED objs
    /\ LazyFrame

\* del e[field] on object o
EntryDelItem(o, field) ==
    /\ o \in DOMAIN objs
    /\ nWrites < MaxWrites
    /\ nWrites' = nWrites + 1
    /\ LET r == LazyDelItem(entries, objs[o], field) IN
       /\ entries' = r.ents
       /\ dbops' = r.ops
    /\ written' = RecordDelete(objs[o].log, objs[o].iteration.val, field)
    /\ last' = ObjCall("delitem", o, "", field, NoneV, EmptyDict)
    /\ UNCHANGED objs
    /\ LazyFrame

\* a MongoDB log and the entry objects the caller takes from it
NextLazy ==
    \/ \E build \in Builds, random \in RandomBytes :
          Construct(1, GivenHash(HashA), "mongodb", build, random)
    \/ \E l \in LogIds, key \in Keys : ObtainEntry(l, key)
    \/ \E o \in 1..MaxObjs, how \in ReadMethods,
          field \in FieldNames : EntryRead(o, how, field)
    \/ \E o \in 1..MaxObjs : EntryRepr(o)
    \/ \E o \in 1..MaxObjs, field \in FieldNames, value \in FieldValues :
          EntrySetItem(o, field, value)
    \/ \E o \in 1..MaxObjs, field \in FieldNames : EntryDelItem(o, field)

SpecLazy == Init /\ [][NextLazy]_vars

\* ----------------------------------------------------------------- claims
\* an identity that hex-decodes to exactly 12 bytes: 24 hexadecimal digits
TwelveByteHex(str) == Len(str) = 24 /\ \A i \in DOMAIN str : IsHexDigit(str[i])
\* the selectors the documentation of TrainingLog enumerates
DocumentedBackends == {"default", "mongodb", "sqlite"}
\* no backend state: no log object, no document
NothingCreated == UNCHANGED <<logs, experiments, entries>>

\* C6: construction with a supplied identity that does not hex-decode to
\* exactly 12 bytes raises ValueError('invalid hash') and creates nothing (no
\* handler, no experiment document); a supplied 24-hex-digit identity is
\* accepted and kept unchanged as the handler's hash_.
C6_InvalidHashRejected ==
    [][\A l \in LogIds, arg \in HashArgs, backend \in Backends,
          build \in Builds, random \in RandomBytes :
          (Construct(l, arg, backend, build, random) /\ arg.given) =>
             IF TwelveByteHex(arg.str)
             THEN logs'[l].alive => logs'[l].handler["hash_"] = arg.str
             ELSE /\ last'.err = "ValueError"
                  /\ last'.msg = "invalid hash"
                  /\ NothingCreated]_vars

\* C7: in a process that has pymongo, construction succeeds for each of the
\* three documented selectors ('default', 'mongodb', 'sqlite'); for any
\* other selector it raises ValueError('unknown backend'); a failed
\* construction creates nothing.
C7_EverySelectorConstructs ==
    [][\A l \in LogIds, arg \in HashArgs, backend \in Backends,
          build \in Builds, random \in RandomBytes :
          (/\ Construct(l, arg, backend, build, random)
           /\ PYMONGO_AVAILABLE(build)
           /\ arg.given => TwelveByteHex(arg.str)) =>
             /\ backend \in DocumentedBackends =>
                   last'.err = "" /\ logs'[l].alive
             /\ backend \notin DocumentedBackends =>
                   last'.err = "ValueError" /\ last'.msg = "unknown backend"
             /\ last'.err # "" => NothingCreated]_vars

\* what a fresh read returns for a value the caller wrote: the in-memory
\* backend keeps the object, the MongoDB backend holds numpy arrays and
\* tuples as lists
AsStored(backend, v) ==
    IF backend = "mongodb" /\ v.kind \in {"ndarray", "tuple"}
    THEN ListV(v.val) ELSE v
\* the mapping the writes and deletes made so far leave at timestamp t of
\* the store of log l
Expected(l, t) ==
    IF t \in DOMAIN WrittenOf(l) THEN WrittenOf(l)[t] ELSE EmptyDict
ExpectedStored(l, t) ==
    [f \in DOMAIN Expected(l, t) |-> AsStored(logs[l].backend, Expected(l, t)[f])]
\* the value of status['iterations_done'] as log l reads it
IterationsDone(l) == StatusOf(World, l).dict["iterations_done"].val

\* C1 as stated: a fresh log[t] is exactly the mapping from every field
\* written and not deleted afterwards to the value last written to it:
\* log[t][f] returns that value, and the entry shows no scoping key.
C1_ReadsLastWrittenValue ==
    \A l \in LogIds : logs[l].alive =>
        \A t \in Timestamps :
            /\ Contents(World, l, IntV(t)) =
                  [err |-> "", dict |-> Expected(l, t)]
            /\ \A f \in DOMAIN Expected(l, t) :
                  GetItemField(World, l, IntV(t), f).ret = Expected(l, t)[f]

\* C1 as amended: a fresh log[t] is exactly the mapping from every field
\* written and not deleted afterwards to the value last written to it as the
\* backend stores it (MongoDB: a numpy array or tuple comes back as a list):
\* log[t][f] returns that value, and the entry shows no scoping key.
C1_ReadsLastStoredValue ==
    \A l \in LogIds : logs[l].alive =>
        \A t \in Timestamps :
            /\ Contents(World, l, IntV(t)) =
                  [err |-> "", dict |-> ExpectedStored(l, t)]
            /\ DOMAIN Contents(World, l, IntV(t)).dict \cap ScopingKeys = {}
            /\ \A f \in DOMAIN Expected(l, t) :
                  LET r == GetItemField(World, l, IntV(t), f) IN
                  r.err = "" /\ r.ret = ExpectedStored(l, t)[f]

\* C1 witness: on a MongoDB log a field was written and then deleted at a
\* timestamp, leaving an entry document with no field
C1_Witness ==
    /\ last.op = "delete" /\ last.err = ""
    /\ IsMongo(World, last.log)
    /\ \E t \in Timestamps :
          /\ t \in DOMAIN WrittenOf(last.log)
          /\ WrittenOf(last.log)[t] = EmptyDict
          /\ MongoDBEntriesLen(entries, Oid(World, last.log)) = 1

\* C2 as stated: in every reachable state cPickle.loads(cPickle.dumps(log))
\* yields a log with the status, info, len, timestamp order, entries and
\* current_entry of the serialized log, on which a fresh read of every
\* written field returns the written value; a restored MongoDB handler has
\* all its handles.
C2_RoundTripKeepsWrittenValues ==
    \A l \in LogIds : logs[l].alive =>
        LET r == RoundTrip(World, l) IN
        /\ View(r, l) = View(World, l)
        /\ \A t \in Timestamps :
              Contents(r, l, IntV(t)) = [err |-> "", dict |-> Expected(l, t)]
        /\ IsMongo(World, l) => HandleAttrs \subseteq DOMAIN r.logs[l].handler

\* C2 as amended: as C2, with a fresh read of every written field returning
\* the value as the backend stores it, which is what a read returned before
\* the log was serialized.
C2_RoundTripKeepsView ==
    \A l \in LogIds : logs[l].alive =>
        LET r == RoundTrip(World, l) IN
        /\ View(r, l) = View(World, l)
        /\ \A t \in Timestamps :
              Contents(r, l, IntV(t)) =
                 [err |-> "", dict |-> ExpectedStored(l, t)]
        /\ IsMongo(World, l) => HandleAttrs \subseteq DOMAIN r.logs[l].handler
        /\ r.entries = entries

\* C2 witness: a log with iterations_done = 1 and a non-empty current entry
\* has just been serialized and restored
C2_Witness ==
    /\ last.op = "roundtrip"
    /\ logs[last.log].alive
    /\ IterationsDone(last.log) = 1
    /\ ShortcutDict(World, last.log, 0).dict # EmptyDict
    /\ LogLen(World, last.log) = 2

\* C3 as stated: len(log) is the number of distinct timestamps to which a
\* field has been written; a timestamp that was only read is not counted.
C3_SizeCountsWrittenTimestamps ==
    \A l \in LogIds : logs[l].alive =>
        LogLen(World, l) = Cardinality(DOMAIN WrittenOf(l))

\* C3 as amended: for the in-memory backend len(log) is the number of
\* distinct timestamps passed to log[t], read or written; for the MongoDB
\* backend it is the number of distinct timestamps to which a field has been
\* written, each of which has one document, and a read creates no document.
C3_SizeCountsMaterializedTimestamps ==
    \A l \in LogIds : logs[l].alive =>
        IF logs[l].backend = "default"
        THEN LogLen(World, l) = Cardinality(accessed[l])
        ELSE /\ LogLen(World, l) = Cardinality(DOMAIN WrittenOf(l))
             /\ \A t \in Timestamps :
                   /\ CountDocuments(entries,
                                     EntryFilter(Oid(World, l), IntV(t)))
                         = IF t \in DOMAIN WrittenOf(l) THEN 1 ELSE 0
                   /\ LogGetItem(World, l, IntV(t)).w = World

\* C3 witness: an in-memory log with one timestamp written and another only
\* read
C3_Witness ==
    \E l \in LogIds :
        /\ IsMemory(World, l)
        /\ last.op = "get" /\ last.log = l /\ last.err = ""
        /\ DOMAIN WrittenOf(l) # {}
        /\ accessed[l] \ DOMAIN WrittenOf(l) # {}

\* no experiment document carries the identity `hash` yet: a construction
\* with selector `backend` makes a new log, not a view of an old one
FreshIdentity(hash, backend) ==
    backend = "mongodb" =>
        FindFirst(experiments, [_id |-> OidV(ObjectId(hash))]) = 0
\* the slots that hold no log
FreeSlots == {m \in LogIds : ~logs[m].alive}

\* C4: iterations_done is 0 on a log constructed with a fresh identity; with
\* iterations_done = n, current_entry has the contents of log[n] and, for
\* n >= 1, previous_entry those of log[n - 1]; a field written through
\* current_entry is read back through log[n].
C4_ShortcutsFollowIterationsDone ==
    /\ \A m \in FreeSlots, hash \in ValidHashes,
          backend \in {"default", "mongodb"} :
          FreshIdentity(hash, backend) =>
             StatusOf(Constructed(World, m, hash, backend, clock), m)
                .dict["iterations_done"] = IntV(0)
    /\ \A l \in LogIds : logs[l].alive =>
          LET n == IterationsDone(l) IN
          /\ ShortcutDict(World, l, 0) = Contents(World, l, IntV(n))
          /\ ShortcutDict(World, l, 0).err = ""
          /\ n >= 1 =>
                /\ ShortcutDict(World, l, 1) = Contents(World, l, IntV(n - 1))
                /\ ShortcutDict(World, l, 1).err = ""
          /\ \A f \in FieldNames, v \in FieldValues :
                LET s == SetItemField(World, l, current_entry(World, l).key,
                                      f, v)
                    r == GetItemField(s.w, l, IntV(n), f) IN
                /\ s.err = "" /\ r.err = ""
                /\ r.ret = AsStored(logs[l].backend, v)
          /\ (last.op = "write_current" /\ last.log = l /\ last.err = "") =>
                /\ n \in DOMAIN WrittenOf(l)
                /\ Contents(World, l, IntV(n)).dict # EmptyDict

\* C4 witness: with iterations_done = 1 a field has just been written
\* through current_entry while the previous entry holds a field as well
C4_Witness ==
    /\ last.op = "write_current" /\ last.err = ""
    /\ IterationsDone(last.log) = 1
    /\ ShortcutDict(World, last.log, 0).dict # EmptyDict
    /\ ShortcutDict(World, last.log, 1).dict # EmptyDict
    /\ ShortcutDict(World, last.log, 0) # ShortcutDict(World, last.log, 1)

\* C5: on the MongoDB backend, constructing a log with the identity of an
\* existing log changes no document of the experiment (iterations_done,
\* epochs_done and created keep their values, no entry changes), and two
\* logs of one identity read the same status, info and entries, which are
\* what was written through either.
C5_SecondInstanceSharesExperiment ==
    /\ \A l \in LogIds, m \in FreeSlots : IsMongo(World, l) =>
          LET w == Constructed(World, m, logs[l].handler["hash_"], "mongodb",
                               clock) IN
          /\ w.experiments = experiments
          /\ w.entries = entries
          /\ View(w, m) = View(World, l)
    /\ \A l \in LogIds, m \in LogIds :
          (/\ IsMongo(World, l) /\ IsMongo(World, m)
           /\ Oid(World, l) = Oid(World, m)) =>
             /\ View(World, m) = View(World, l)
             /\ \A t \in Timestamps :
                   Contents(World, m, IntV(t)).dict = ExpectedStored(l, t)

\* C5 witness: a second log has just been constructed on the experiment of
\* a log that has iterations_done = 1 and a written entry
C5_Witness ==
    /\ last.op = "init" /\ last.log = 2 /\ last.err = ""
    /\ IsMongo(World, 1) /\ IsMongo(World, 2)
    /\ Oid(World, 1) = Oid(World, 2)
    /\ IterationsDone(2) = 1
    /\ Contents(World, 2, IntV(1)).dict # EmptyDict

\* C8: log[k] raises TypeError for every k that is not a non-negative
\* integer and the failed call changes nothing; log.previous_entry raises it
\* while iterations_done = 0; for a non-negative integer k log[k] does not
\* raise.
C8_InvalidTimestampRejected ==
    \A l \in LogIds : logs[l].alive =>
        /\ \A key \in Keys :
              LET g == LogGetItem(World, l, key) IN
              IF key \in ValidKeys
              THEN g.err = ""
              ELSE /\ g.err = "TypeError"
                   /\ g.w = World
                   /\ View(g.w, l) = View(World, l)
        /\ IterationsDone(l) = 0 =>
              ShortcutDict(World, l, 1).err = "TypeError"
        /\ (last.log = l /\ last.op = "previous" /\ IterationsDone(l) = 0) =>
              last.err = "TypeError"

\* C8 witness: log.previous_entry has just raised TypeError on a log with
\* iterations_done = 0 that has an entry
C8_Witness ==
    /\ last.op = "previous" /\ last.err = "TypeError"
    /\ IterationsDone(last.log) = 0
    /\ LogLen(World, last.log) >= 1

\* C9: for every timestamp t to which nothing has been written, log[t]
\* raises nothing and is the empty mapping, on both backends, in every
\* reachable state and on the log restored from its serialization.
C9_UnwrittenEntryIsEmpty ==
    \A l \in LogIds : logs[l].alive =>
        \A t \in Timestamps : t \notin DOMAIN WrittenOf(l) =>
            /\ Contents(World, l, IntV(t)) =
                  [err |-> "", dict |-> EmptyDict]
            /\ Contents(RoundTrip(World, l), l, IntV(t)) =
                  [err |-> "", dict |-> EmptyDict]

\* C9 witness: log[t] has been read for every t on an in-memory log to which
\* nothing has been written
C9_Witness ==
    /\ last.op = "get" /\ last.err = ""
    /\ IsMemory(World, last.log)
    /\ DOMAIN WrittenOf(last.log) = {}
    /\ accessed[last.log] = Timestamps

\* C10: log[t][f] for a field f that the entry does not hold raises KeyError,
\* whether the entry is empty or holds other fields; the read returns no
\* default and adds f neither to the entry nor to the store.
C10_AbsentKeyRaises ==
    \A l \in LogIds : logs[l].alive =>
        \A t \in Timestamps, f \in FieldNames :
            f \notin DOMAIN Contents(World, l, IntV(t)).dict =>
               LET r == GetItemField(World, l, IntV(t), f) IN
               /\ r.err = "KeyError"
               /\ r.ret = NoneV
               /\ Contents(r.w, l, IntV(t)) = Contents(World, l, IntV(t))
               /\ r.w.entries = entries
               /\ r.w.experiments = experiments

\* C10 witness: log[t][f] has just raised KeyError for f while an entry of
\* the log holds another field
C10_Witness ==
    /\ last.op = "read" /\ last.err = "KeyError"
    /\ \E t \in Timestamps :
          LET d == Contents(World, last.log, IntV(t)).dict IN
          d # EmptyDict /\ last.msg \notin DOMAIN d

\* the worlds that one operation on log l can leave: an entry write or
\* delete, a set or delete of a key of status or info, a serialize/restore,
\* the construction of another log object with the identity of l, which
\* the caller binds to a new name (a free slot) or to the name of l
AfterOneOperation(l) ==
    {SetItemField(World, l, key, f, v).w :
        key \in ValidKeys, f \in FieldNames, v \in FieldValues}
    \cup {DelItemField(World, l, key, f).w :
              key \in ValidKeys, f \in FieldNames}
    \cup {MetaSetItem(World, l, name, k, v).w :
              name \in MetaNames, k \in MetaKeys, v \in MetaValues}
    \cup {MetaDelItem(World, l, name, k, driver).w :
              name \in MetaNames, k \in MetaKeys, driver \in Drivers}
    \cup {RoundTrip(World, l)}
    \cup {Constructed(World, s, logs[l].handler["hash_"], "mongodb", clock) :
              s \in FreeSlots \cup {l}}

\* the identities a caller constructs a log with: the ones it passes and
\* the ones os.urandom draws
AnyHashes == ValidHashes \cup {Hexlify(r) : r \in RandomBytes}

\* C11: of two MongoDB logs with different identities in one database, no
\* operation on one (entry write or delete, status or info set or delete,
\* construction of a further object with its identity, restore) changes
\* what the other reads: its entries, len, timestamp order, status and info.
\* Nor does the construction of a log with any other identity, on either
\* backend, which makes a new experiment: it changes neither what a MongoDB
\* log reads nor the documents of its experiment.
C11_OtherExperimentUntouched ==
    /\ \A l \in LogIds, m \in LogIds :
          (/\ IsMongo(World, l) /\ IsMongo(World, m)
           /\ Oid(World, l) # Oid(World, m)) =>
              \A w \in AfterOneOperation(l) : View(w, m) = View(World, m)
    /\ \A m \in LogIds, hash \in AnyHashes, backend \in {"default", "mongodb"} :
          \A s \in LogIds \ {m} :
          (IsMongo(World, m) /\ ObjectId(hash) # Oid(World, m)) =>
             LET w == Constructed(World, s, hash, backend, clock) IN
             /\ View(w, m) = View(World, m)
             /\ w.entries = entries
             /\ \A i \in DOMAIN experiments : w.experiments[i] = experiments[i]

\* C11 witness: a MongoDB log has just been constructed with an identity of
\* its own in the database of another MongoDB log, which holds an entry
\* document and has counted an iteration
C11_Witness ==
    /\ last.op = "init" /\ last.log = 2 /\ last.err = ""
    /\ IsMongo(World, 1) /\ IsMongo(World, 2)
    /\ Oid(World, 1) # Oid(World, 2)
    /\ LogLen(World, 1) = 1
    /\ IterationsDone(1) = 1

\* the calls of the last call that read the entries collection
FindOps == SelectSeq(dbops, LAMBDA c : c.op = "find_one")
\* the calls that access the contents of an entry
ReadCalls == ReadMethods \cup {"repr"}

\* C12: on the MongoDB backend log[t] sends nothing to the server and
\* changes nothing; e[f] = v sends exactly one update_one, an upsert with
\* the filter (experiment, iteration t) that sets f, and no read; a
\* find_one is sent only by a call that accesses the contents of the entry:
\* a read of a key, an iteration, a len or a repr, one find_one per call.
C12_EntryAccessIsLazy ==
    /\ \A l \in LogIds, key \in Keys :
          IsMongo(World, l) => LogGetItem(World, l, key).w = World
    /\ last.op = "obtain" => dbops = <<>>
    /\ last.op = "setitem" =>
          LET e == objs[last.obj] IN
          /\ Len(dbops) = 1
          /\ dbops[1].op = "update_one" /\ dbops[1].upsert
          /\ dbops[1].filter = [experiment |-> OidV(Oid(World, e.log)),
                                iteration |-> e.iteration]
          /\ dbops[1].update.operator = "$set"
          /\ dbops[1].update.key = last.field
          /\ MongoEntryGet(entries, e.objectid, e.iteration)[last.field]
                = AsStored("mongodb", last.value)
    /\ last.op \in {"obtain", "setitem", "delitem"} => FindOps = <<>>
    /\ last.op \in ReadCalls => Len(FindOps) = 1

\* C12 witness: a field has just been written through an entry object whose
\* contents were never read, which made the entry's document
C12_Witness ==
    /\ last.op = "setitem"
    /\ objs[last.obj].queries = 0
    /\ Len(entries) = 1
    /\ Len(dbops) = 1

\* the attributes of a MongoDB handler that are live handles: the client,
\* the database, the collection and the wrappers bound to them
LiveHandles == {"client", "db", "experiments", "entries", "info", "status"}
\* the configuration of a MongoDB handler and the identity
MongoConfig == {"host", "port", "database", "hash_"}

\* C13 as stated: the pickled state of a log holds the status values, the
\* info, the identity and, for MongoDB, host, port and database, and none
\* of the live handles.
C13_SnapshotHoldsStatus ==
    \A l \in LogIds : logs[l].alive =>
        LET p == Dumps(World, l).state IN
        /\ "status" \in DOMAIN p /\ p["status"] = StatusOf(World, l).dict
        /\ "info" \in DOMAIN p /\ p["info"] = InfoOf(World, l).dict
        /\ "hash_" \in DOMAIN p /\ p["hash_"] = logs[l].handler["hash_"]
        /\ IsMongo(World, l) =>
              /\ MongoConfig \subseteq DOMAIN p
              /\ LiveHandles \cap DOMAIN p = {}

\* C13 as amended: the pickled state of an in-memory log holds its status,
\* info, identity and entries; the pickled state of a MongoDB log holds
\* exactly the identity, host, port, database and the reference to the
\* log, with the handler's values, and no live handle: status and info
\* stay in the database, where the restored log reads them again.
C13_SnapshotHoldsIdentityAndConfig ==
    \A l \in LogIds : logs[l].alive =>
        LET p == Dumps(World, l).state IN
        IF logs[l].backend = "default"
        THEN /\ p["status"] = StatusOf(World, l).dict
             /\ p["info"] = InfoOf(World, l).dict
             /\ p["hash_"] = logs[l].handler["hash_"]
             /\ DodRebuild(p["entries"]) = logs[l].handler["entries"]
        ELSE /\ DOMAIN p = MongoConfig \cup {"log"}
             /\ \A a \in DOMAIN p : p[a] = logs[l].handler[a]
             /\ LiveHandles \cap DOMAIN p = {}
             /\ ObjectId(p["hash_"]) = Oid(World, l)
             /\ StatusOf(RoundTrip(World, l), l) = StatusOf(World, l)
             /\ InfoOf(RoundTrip(World, l), l) = InfoOf(World, l)
             /\ LiveHandles \subseteq DOMAIN RoundTrip(World, l).logs[l].handler

\* C13 witness: a MongoDB log with iterations_done = 1 and an entry has
\* just been serialized and restored
C13_Witness ==
    /\ last.op = "roundtrip"
    /\ IsMongo(World, last.log)
    /\ IterationsDone(last.log) = 1
    /\ LogLen(World, last.log) >= 1

\* C14: over the life of one MongoEntry object the reads of a key, the
\* iterations and the lens send find_one once in all: the first of them
\* queries the server and every later one returns what the first returned.
C14_EntryMaterializesOnce ==
    \A o \in DOMAIN objs :
        /\ objs[o].queries <= 1
        /\ (last.op \in ReadMethods /\ last.obj = o) =>
              /\ last.dict = objs[o].first
              /\ objs[o].queries = 1

\* the mapping `name` of log l in world w without key k
MetaWithout(w, l, name, k) == Del(MetaOf(w, l, name).dict, k)
\* the status or info that is not `name`
OtherMeta(name) == IF name = "status" THEN "info" ELSE "status"

\* C15: on the MongoDB backend log.status[k] = v and log.info[k] = v
\* change that key only, and del log.status[k] and del log.info[k] raise
\* nothing, leave k absent and leave every other key of status and info,
\* and the experiment document, as they were and readable.
C15_MetaSetAndDeleteTouchOneKey ==
    \A l \in LogIds : IsMongo(World, l) =>
        \A name \in MetaNames, k \in MetaKeys :
            /\ \A v \in MetaValues :
                  LET s == MetaSetItem(World, l, name, k, v) IN
                  /\ s.err = ""
                  /\ MetaGetItem(s.w, l, name, k).ret = AsStored("mongodb", v)
                  /\ MetaWithout(s.w, l, name, k) =
                        MetaWithout(World, l, name, k)
                  /\ MetaOf(s.w, l, OtherMeta(name)) =
                        MetaOf(World, l, OtherMeta(name))
            /\ \A driver \in Drivers :
                  k \in DOMAIN MetaOf(World, l, name).dict =>
                     LET d == MetaDelItem(World, l, name, k, driver) IN
                     /\ d.err = ""
                     /\ MetaOf(d.w, l, name) =
                           [err |-> "", dict |-> MetaWithout(World, l, name, k)]
                     /\ MetaOf(d.w, l, OtherMeta(name)) =
                           MetaOf(World, l, OtherMeta(name))
                     /\ Len(d.w.experiments) = Len(experiments)

\* C16: in every state reached by construction (also with an identity in
\* use), entry writes and deletes, sets of keys of status and info, deletes
\* of other keys, and serialize/restore, log.status is readable and holds
\* iterations_done and epochs_done; both are 0 on a log of a fresh identity
\* and stay 0 while the caller has set nothing.
C16_StatusKeepsCounters ==
    /\ \A l \in LogIds : logs[l].alive =>
          /\ StatusOf(World, l).err = ""
          /\ BaseCounters \subseteq DOMAIN StatusOf(World, l).dict
          /\ \A k \in BaseCounters : MetaGetItem(World, l, "status", k).err = ""
          /\ nWrites = 0 =>
                \A k \in BaseCounters :
                    MetaGetItem(World, l, "status", k).ret = IntV(0)
    /\ \A s \in FreeSlots, hash \in ValidHashes,
          backend \in {"default", "mongodb"} :
          FreshIdentity(hash, backend) =>
             StatusOf(Constructed(World, s, hash, backend, clock), s).dict
                = [k \in BaseCounters |-> IntV(0)]

\* C16 witness: del log.status['note'] has just been called on a MongoDB
\* log whose status holds 'note'
C16_Witness ==
    /\ last.op = "del_status"
    /\ IsMongo(World, last.log)
    /\ "note" \in DOMAIN StatusOf(World, last.log).dict

\* the timestamps of the documents persisted for the experiment of log l
PersistedTimestamps(w, l) ==
    {w.entries[i]["iteration"] : i \in
        {j \in DOMAIN w.entries :
            Matches(w.entries[j], [experiment |-> OidV(Oid(w, l))])}}

\* C17: on a MongoDB log, list(log) yields the timestamps that have a
\* document for the experiment, each exactly once, in ascending order, and
\* as many of them as len(log).
C17_IterationDistinctAscending ==
    \A l \in LogIds : IsMongo(World, l) =>
        LET it == LogIter(World, l) IN
        /\ {it[i] : i \in DOMAIN it} = PersistedTimestamps(World, l)
        /\ \A i, j \in DOMAIN it : i < j => it[i].val < it[j].val
        /\ Len(it) = LogLen(World, l)

\* the facade operations of a single writer: get entry, write field, read
\* field, delete field, read whole entry, set status, read status, size,
\* iterate timestamps
FacadeOps ==
    [op : {"get", "contents"}, key : Keys, field : {"field"}, value : {NoneV}]
    \cup [op : {"write"}, key : ValidKeys, field : FieldNames,
          value : FieldValues]
    \cup [op : {"read", "delete"}, key : ValidKeys, field : FieldNames,
          value : {NoneV}]
    \cup [op : {"set_status"}, key : {NoneV}, field : MetaKeys,
          value : MetaValues]
    \cup [op : {"status", "len", "iter"}, key : {NoneV}, field : {"field"},
          value : {NoneV}]

\* one facade operation on log l: the exception it raises, what it returns,
\* and the world after it
Apply(w, l, o) ==
    CASE o.op = "get" ->
           LET r == LogGetItem(w, l, o.key) IN
           [err |-> r.err, ret |-> NoneV, w |-> r.w]
      [] o.op = "contents" ->
           LET r == LogGetItem(w, l, o.key) IN
           [err |-> r.err, ret |-> Contents(w, l, o.key).dict, w |-> r.w]
      [] o.op = "write" ->
           LET r == SetItemField(w, l, o.key, o.field, o.value) IN
           [err |-> r.err, ret |-> NoneV, w |-> r.w]
      [] o.op = "read" ->
           LET r == GetItemField(w, l, o.key, o.field) IN
           [err |-> r.err, ret |-> r.ret, w |-> r.w]
      [] o.op = "delete" ->
           LET r == DelItemField(w, l, o.key, o.field) IN
           [err |-> r.err, ret |-> NoneV, w |-> r.w]
      [] o.op = "set_status" ->
           LET r == MetaSetItem(w, l, "status", o.field, o.value) IN
           [err |-> r.err, ret |-> NoneV, w |-> r.w]
      [] o.op = "status" ->
           [err |-> StatusOf(w, l).err, ret |-> StatusOf(w, l).dict, w |-> w]
      [] o.op = "len" ->
           [err |-> "", ret |-> LogLen(w, l), w |-> w]
      [] o.op = "iter" ->
           [err |-> "", ret |-> LogIter(w, l), w |-> w]

\* what the caller gets from a call: the exception and the value
Outcome(r) == [err |-> r.err, ret |-> r.ret]

\* log l is as its construction with a fresh identity left it
Untouched(w, l) ==
    /\ w.logs[l].alive
    /\ LogLen(w, l) = 0
    /\ StatusOf(w, l) =
          [err |-> "", dict |-> [k \in BaseCounters |-> IntV(0)]]

\* C18: an in-memory log and a MongoDB log, both as construction left them,
\* give the same result and raise the same exception at each step of every
\* sequence of two facade operations.
C18_BackendsInterchangeable ==
    \A l \in LogIds, m \in LogIds :
        (/\ IsMemory(World, l) /\ Untouched(World, l)
         /\ IsMongo(World, m) /\ Untouched(World, m)) =>
            \A o1 \in FacadeOps, o2 \in FacadeOps :
                LET a1 == Apply(World, l, o1)
                    b1 == Apply(World, m, o1)
                IN
                /\ Outcome(a1) = Outcome(b1)
                /\ Outcome(Apply(a1.w, l, o2)) = Outcome(Apply(b1.w, m, o2))

\* ------------------------------------- instances sharing one experiment
\* Two TrainingLog objects of experiment HashA on MongoDB, each in a process
\* of its own. A statement of the source that makes several calls to the
\* store is one step per call, and the steps of the two processes interleave.
\* pending[l] is the statement log l is in and what it has read so far.

\* the setdefault calls of TrainingLog.__init__, in order
SetDefaults(now) ==
    <<[name |-> "info", key |-> "created", value |-> DateV(now)],
      [name |-> "status", key |-> "iterations_done", value |-> IntV(0)],
      [name |-> "status", key |-> "epochs_done", value |-> IntV(0)]>>
\* TrainingLog.__init__ at its i-th setdefault, before the read of the key
AtSetDefault(i, now) ==
    IF i <= Len(SetDefaults(now))
    THEN [kind |-> "setdefault", at |-> i, absent |-> FALSE, now |-> now]
    ELSE NoneV
Idle(l) == pending[l] = NoneV
ConcFrame == UNCHANGED <<accessed, objs, dbops>>

\* MongoDBHandler.__init__ and _connect of log l: the $setOnInsert upsert on
\* _id, which the store keeps unique
ConnectStep(l) ==
    /\ ~logs[l].alive
    /\ Idle(l)
    /\ experiments' = ConnectUpsert(experiments, ObjectId(HashA))
    /\ logs' = [logs EXCEPT ![l] =
                   [alive |-> TRUE, backend |-> "mongodb",
                    handler |-> ConnectAttrs(MongoDBHandlerInit(l, HashA))]]
    /\ clock' = clock + 1
    /\ pending' = [pending EXCEPT ![l] = AtSetDefault(1, clock)]
    /\ last' = Call("connect", l, "", "")
    /\ UNCHANGED <<entries, written, nWrites, incs>>
    /\ ConcFrame

\* MutableMapping.setdefault, the read: self[key], which is find_one
SetDefaultRead(l) ==
    /\ pending[l].kind = "setdefault"
    /\ ~pending[l].absent
    /\ LET p == pending[l]
           d == SetDefaults(p.now)[p.at]
           g == MongoDBDictGet(experiments, Oid(World, l), d.name) IN
       pending' = [pending EXCEPT ![l] =
                      IF d.key \in DOMAIN g.dict
                      THEN AtSetDefault(p.at + 1, p.now)
                      ELSE [p EXCEPT !.absent = TRUE]]
    /\ last' = Call("setdefault read", l, "", "")
    /\ UNCHANGED <<logs, experiments, entries, clock, written, nWrites, incs>>
    /\ ConcFrame

\* MutableMapping.setdefault, after KeyError: self[key] = default, which is
\* update_one with $set
SetDefaultWrite(l) ==
    /\ pending[l].kind = "setdefault"
    /\ pending[l].absent
    /\ LET p == pending[l]
           d == SetDefaults(p.now)[p.at] IN
       /\ experiments' = MongoDBDictSetItem(experiments, Oid(World, l),
                                            d.name, d.key, d.value)
       /\ pending' = [pending EXCEPT ![l] = AtSetDefault(p.at + 1, p.now)]
    /\ last' = Call("setdefault write", l, "", "")
    /\ UNCHANGED <<logs, entries, clock, written, nWrites, incs>>
    /\ ConcFrame

\* the statements status['iterations_done'] += 1 begun and not yet done
IncsInFlight == Cardinality({l \in LogIds : pending[l].kind = "inc"})

\* log.status['iterations_done'] += 1, the read: MongoDBDict.__getitem__
IncRead(l) ==
    /\ IsMongo(World, l)
    /\ Idle(l)
    /\ incs + IncsInFlight < MaxIncs
    /\ LET s == StatusOf(World, l) IN
       /\ s.err = ""
       /\ "iterations_done" \in DOMAIN s.dict
       /\ pending' = [pending EXCEPT ![l] =
                         [kind |-> "inc",
                          val |-> s.dict["iterations_done"].val]]
    /\ last' = Call("inc read", l, "", "")
    /\ UNCHANGED <<logs, experiments, entries, clock, written, nWrites, incs>>
    /\ ConcFrame

\* log.status['iterations_done'] += 1, the write: MongoDBDict.__setitem__
\* with the value read plus one
IncWrite(l) ==
    /\ pending[l].kind = "inc"
    /\ experiments' = MongoDBDictSetItem(experiments, Oid(World, l), "status",
                           "iterations_done", IntV(pending[l].val + 1))
    /\ pending' = [pending EXCEPT ![l] = NoneV]
    /\ incs' = incs + 1
    /\ last' = Call("inc write", l, "", "")
    /\ UNCHANGED <<logs, entries, clock, written, nWrites>>
    /\ ConcFrame

\* the field each instance writes
FieldOf(l) == IF l = 1 THEN "field" ELSE "field2"

\* log[key][field] = value, update_one(filter, $set, upsert=True) at the
\* store: the query phase. A document that matches is updated in the same
\* step; when none matches the store goes on to insert one. The entries
\* collection has no unique index on (experiment, iteration), so the
\* insert does not fail if a matching document has appeared meanwhile.
UpsertQuery(l, key, value) ==
    /\ IsMongo(World, l)
    /\ Idle(l)
    /\ nWrites < MaxWrites
    /\ nWrites' = nWrites + 1
    /\ IF FindFirst(entries, EntryFilter(Oid(World, l), key)) # 0
       THEN /\ entries' = MongoEntrySetItem(entries, Oid(World, l), key,
                                            FieldOf(l), value)
            /\ written' = RecordWrite(l, key.val, FieldOf(l), value)
            /\ UNCHANGED pending
       ELSE /\ pending' = [pending EXCEPT ![l] =
                              [kind |-> "upsert", iteration |-> key,
                               key |-> FieldOf(l), value |-> value]]
            /\ UNCHANGED <<entries, written>>
    /\ last' = Call("upsert", l, "", "")
    /\ UNCHANGED <<logs, experiments, clock, incs>>
    /\ ConcFrame

\* the document an upsert that matched nothing inserts
Upserted(coll, flt, key, value) ==
    Append(coll, Put(Put(flt, "_id", AutoIdV(Len(coll) + 1)), key, value))

\* the insert phase of the upsert of log l
UpsertInsert(l) ==
    /\ pending[l].kind = "upsert"
    /\ LET p == pending[l] IN
       /\ entries' = Upserted(entries, EntryFilter(Oid(World, l), p.iteration),
                              p.key, AsStored("mongodb", p.value))
       /\ written' = RecordWrite(l, p.iteration.val, p.key, p.value)
    /\ pending' = [pending EXCEPT ![l] = NoneV]
    /\ last' = Call("upsert insert", l, "", "")
    /\ UNCHANGED <<logs, experiments, clock, nWrites, incs>>
    /\ ConcFrame

NextConc ==
    \/ \E l \in LogIds : ConnectStep(l)
    \/ \E l \in LogIds : SetDefaultRead(l)
    \/ \E l \in LogIds : SetDefaultWrite(l)
    \/ \E l \in LogIds : IncRead(l)
    \/ \E l \in LogIds : IncWrite(l)
    \/ \E l \in LogIds, key \in ValidKeys, value \in FieldValues :
          UpsertQuery(l, key, value)
    \/ \E l \in LogIds : UpsertInsert(l)

SpecConc == Init /\ [][NextConc]_vars

\* no statement of any instance is in progress
AllIdle == \A l \in LogIds : Idle(l)

\* C19: two instances of one experiment write different fields to one
\* timestamp; whenever no write is in progress, the timestamp has exactly
\* one document, and it holds every field written with the value written.
C19_ConcurrentFieldWritesKept ==
    \A l \in LogIds : (IsMongo(World, l) /\ AllIdle) =>
        \A t \in Timestamps :
            LET n == CountDocuments(entries,
                                    EntryFilter(Oid(World, l), IntV(t))) IN
            IF t \in DOMAIN WrittenOf(l)
            THEN /\ n = 1
                 /\ Contents(World, l, IntV(t)).dict = ExpectedStored(l, t)
            ELSE n = 0

\* status['iterations_done'] as the store holds it, 0 while it holds none
StoredIterations ==
    LET i == FindFirst(experiments, [_id |-> OidV(ObjectId(HashA))]) IN
    IF i # 0 /\ "iterations_done" \in DOMAIN experiments[i]["status"]
    THEN experiments[i]["status"]["iterations_done"].val
    ELSE 0

\* C20: under every interleaving of the increments and constructions of
\* the instances of one experiment, the stored iterations_done never
\* decreases, and when no statement is in progress it equals the number of
\* increments done.
C20_NoLostStatusUpdate ==
    /\ [](AllIdle => StoredIterations = incs)
    /\ [][StoredIterations' >= StoredIterations]_vars
====
